---- MODULE Spec2Model ----
(***************************************************************************)
(* DarkSearch.py: a dispatcher (search) fetches one page, splits the      *)
(* remaining pages among NUMBER_OF_THREADS SearchThreads, each of which    *)
(* pops a proxy from PROXIES, walks its page range appending to RESULTS,   *)
(* and appends its proxy back; main() polls the threads, turns a           *)
(* KeyboardInterrupt into kill_received flags, and exports RESULTS.        *)
(*                                                                         *)
(* CPython semantics assumed: list.pop and list.append are atomic (GIL),   *)
(* Thread.isAlive exists (Python < 3.9), a KeyboardInterrupt is raised in  *)
(* the main thread only, sys.exit in the main thread does not stop the     *)
(* non-daemon SearchThreads.                                               *)
(***************************************************************************)
EXTENDS Integers, Sequences, FiniteSets

\* ---------------------------------------------------------------- sizes
\* DarkSearch.py:22 sets NUMBER_OF_THREADS = 5 and DarkSearch.py:21 sets
\* PROXY_FAIL_LIMIT = 10; both are scaled down here to keep the state space
\* finite and small.  Nothing below depends on the values other than through
\* these two names.
NUMBER_OF_THREADS == 2
PROXY_FAIL_LIMIT == 2

\* MaxPage: the largest page number a response reports (7 is the least
\*   last_page for which the second of two threads gets a page to request).
\* MaxCurrentPage: the largest current_page the first response reports.
\* MaxItems: a well-formed response carries 1 .. MaxItems records.
\* MaxProxies: the most proxies configured.
\* MaxFaults: the most faulting requests the threads of one run meet
\*   (proxy_fail_counter grows without limit otherwise).
\* MaxStray: the most records that faulting responses leave in RESULTS.
\* MaxRounds: where the count of post-interrupt join rounds saturates.
\* MaxQueryLen: the longest keyword.
MaxPage == 7
MaxCurrentPage == 2
MaxItems == 1
MaxProxies == 3
MaxFaults == 3
MaxStray == 1
MaxRounds == 3
MaxQueryLen == 1

Names == 0 .. (NUMBER_OF_THREADS - 1)
Pages == 1 .. MaxPage
NoProxy == 0
MainName == -1
\* an argument of search() is None or a value
None(default) == [none |-> TRUE, val |-> default]
Some(v) == [none |-> FALSE, val |-> v]
\* the query given to search(): None, or a string, possibly empty
Queries ==
    {None(<< >>)} \cup { Some([k \in 1 .. n |-> "t"]) : n \in 0 .. MaxQueryLen }
\* the page given to search(): None, or an integer
StartPages == {None(0)} \cup { Some(p) : p \in 0 .. MaxPage }

VARIABLES
    \* module globals
    PROXIES,            \* DarkSearch.py:26
    THREADS,            \* DarkSearch.py:28, the names of the spawned threads
    RESULTS,            \* DarkSearch.py:30
    \* main thread
    mainPc,             \* position of the main thread
    mainCounter,        \* `counter` of main(), DarkSearch.py:237
    exported,           \* whether export() has run, and what it wrote
    \* locals of search()
    current_page, last_page, queries_per_thread, thread_current_page,
    \* SearchThread fields and locals of run(), one per thread name
    pc, start_page, end_page, kill_received, counter, proxy_fail_counter, proxy,
    \* observers (not program state)
    initial,            \* the proxies configured at start
    firstFetch,         \* how the first request of search() ended
    firstRequests,      \* requests search() has issued
    argsValid,          \* search() was given a non-empty query and a page >= 1
    requested,          \* per thread: pages it has issued a request for
    reqAfterKill,       \* per thread: requests issued with its flag set (0..2)
    okItems,            \* records carried by the fetches that succeeded
    faults,             \* requests of the threads that ended in a fault
    waitRounds          \* join rounds begun after the first handled interrupt
                        \* while no SearchThread has taken a step since it;
                        \* Stopped once one has

vars == << PROXIES, THREADS, RESULTS, mainPc, mainCounter, exported,
           current_page, last_page, queries_per_thread, thread_current_page,
           pc, start_page, end_page, kill_received, counter,
           proxy_fail_counter, proxy,
           initial, firstFetch, firstRequests, argsValid, requested,
           reqAfterKill, okItems, faults,
           waitRounds >>

mainVars == << mainPc, mainCounter, exported >>
searchVars == << current_page, last_page, queries_per_thread, thread_current_page >>
threadVars == << pc, start_page, end_page, kill_received, counter,
                 proxy_fail_counter, proxy >>
obsVars == << initial, firstFetch, firstRequests, argsValid, requested,
             reqAfterKill, okItems, faults >>

\* ---------------------------------------------------------------- helpers
Min(a, b) == IF a < b THEN a ELSE b

\* math.ceil(a / b) for b > 0 (true division, then ceiling)
Ceil(a, b) == -((-a) \div b)

\* list.pop(): the last element, and the list without it
PopValue(list) == list[Len(list)]
PopRestKeepsElement(list) == list
PopRest(list) == SubSeq(list, 1, Len(list) - 1)

\* the records one response contributes: Result objects, identified by the
\* thread that appended them, the page they came from and their position
Records(by, page, n) == [k \in 1 .. n |-> [by |-> by, page |-> page, idx |-> k]]

\* the parse loop: RESULTS.append(result) for each record in turn
AppendAllReplacing(list, items) == items
AppendAll(list, items) == list \o items

\* thread_last_page of one iteration of the spawn loop
ThreadLastPage(tcp, qpt, last) ==
    IF tcp + qpt > last THEN last ELSE tcp + qpt

\* thread_current_page for the next iteration of the spawn loop
NextThreadCurrentPageOverlapping(tlast) == tlast - 1
NextThreadCurrentPage(tlast) == tlast + 1

\* the while condition of SearchThread.run
LoopConditionIgnoringKill(i) == counter[i] < end_page[i]
LoopCondition(i) == ~kill_received[i] /\ counter[i] < end_page[i]

\* Thread.isAlive(): started and run() not yet returned or raised
IsAlive(i) == pc[i] \in {"start", "head", "try", "request", "release"}
has_live_threads == \E k \in 1 .. Len(THREADS) : IsAlive(THREADS[k])

\* the thread has popped a proxy and not yet appended it back
Holds(i) == pc[i] \in {"head", "try", "request", "release"}

\* the round count stops at the first step a SearchThread takes after an
\* interrupt was handled
Stopped == 0 - 1
RoundsAfterThreadStep == IF mainCounter = 0 THEN waitRounds ELSE Stopped

\* records in RESULTS that no successful fetch accounts for
StrayRecords == Len(RESULTS) - okItems

\* ---------------------------------------------------------------- Init
\* The module sets PROXIES = [] and leaves filling it to whoever configures
\* the run; a run starts with 0 .. MaxProxies distinct proxies in it.
Init ==
    /\ \E n \in 0 .. MaxProxies :
          /\ PROXIES = [k \in 1 .. n |-> k]
          /\ initial = 1 .. n
    /\ THREADS = << >>
    /\ RESULTS = << >>
    /\ mainPc = "search"
    /\ mainCounter = 0
    /\ exported = [written |-> FALSE, results |-> << >>]
    /\ current_page = 0
    /\ last_page = 0
    /\ queries_per_thread = 0
    /\ thread_current_page = 0
    /\ pc = [i \in Names |-> "unborn"]
    /\ start_page = [i \in Names |-> 0]
    /\ end_page = [i \in Names |-> 0]
    /\ kill_received = [i \in Names |-> FALSE]
    /\ counter = [i \in Names |-> 0]
    /\ proxy_fail_counter = [i \in Names |-> 0]
    /\ proxy = [i \in Names |-> NoProxy]
    /\ firstFetch = "none"
    /\ firstRequests = 0
    /\ argsValid = TRUE
    /\ requested = [i \in Names |-> {}]
    /\ reqAfterKill = [i \in Names |-> 0]
    /\ okItems = 0
    /\ faults = 0
    /\ waitRounds = 0

\* ---------------------------------------------------------------- search()
\* the validation at the head of search(): which exception it raises
ValidateSkippingPage(query, page) ==
    IF query.none THEN "NoQueryException"
    ELSE IF Len(query.val) <= 0 THEN "NoQueryException"
    ELSE "ok"
Validate(query, page) ==
    IF query.none THEN "NoQueryException"
    ELSE IF Len(query.val) <= 0 THEN "NoQueryException"
    ELSE IF page.none THEN "InvalidPageException"
    ELSE IF page.val <= 0 THEN "InvalidPageException"
    ELSE "ok"

\* what the caller owes search(): a non-empty query and a page of at least 1
Acceptable(query, page) ==
    /\ ~query.none
    /\ ~page.none
    /\ Len(query.val) >= 1
    /\ page.val >= 1

\* search() raises before any request: NoQueryException, InvalidPageException
SearchRejected ==
    /\ mainPc = "search"
    /\ \E query \in Queries, page \in StartPages :
          /\ Validate(query, page) # "ok"
          /\ firstFetch' = Validate(query, page)
          /\ argsValid' = Acceptable(query, page)
    /\ UNCHANGED firstRequests
    /\ mainPc' = "poll"
    /\ UNCHANGED << PROXIES, THREADS, RESULTS, mainCounter, exported >>
    /\ UNCHANGED << searchVars, threadVars >>
    /\ UNCHANGED << initial, requested, reqAfterKill, okItems, faults, waitRounds >>

\* (the same, but search() goes back to issue the request again)
SearchFetchFailsRetrying ==
    /\ mainPc = "search"
    /\ \E query \in Queries, page \in StartPages :
          /\ Validate(query, page) = "ok"
          /\ argsValid' = Acceptable(query, page)
    /\ firstRequests' = firstRequests + 1
    /\ \E how \in {"transport", "HTTPError", "HTTPError429", "nototal"} :
          firstFetch' = how
    /\ mainPc' = "search"
    /\ UNCHANGED << PROXIES, THREADS, RESULTS, mainCounter, exported >>
    /\ UNCHANGED << searchVars, threadVars >>
    /\ UNCHANGED << initial, requested, reqAfterKill, okItems, faults, waitRounds >>

\* the first request fails before anything is appended: requests.get raises,
\* raise_for_status raises HTTPError (any 4xx/5xx status, 429 among them), or
\* the body has no "total"
SearchFetchFails ==
    /\ mainPc = "search"
    /\ \E query \in Queries, page \in StartPages :
          /\ Validate(query, page) = "ok"
          /\ argsValid' = Acceptable(query, page)
    /\ firstRequests' = firstRequests + 1
    /\ \E how \in {"transport", "HTTPError", "HTTPError429", "nototal"} :
          firstFetch' = how
    /\ mainPc' = "poll"
    /\ UNCHANGED << PROXIES, THREADS, RESULTS, mainCounter, exported >>
    /\ UNCHANGED << searchVars, threadVars >>
    /\ UNCHANGED << initial, requested, reqAfterKill, okItems, faults, waitRounds >>

\* the first response parses up to its k-th record and then raises (a record
\* that is no object, or a last_page/current_page that int() rejects): the k
\* records stay in RESULTS and search() returns without spawning
SearchFetchPartial ==
    /\ mainPc = "search"
    /\ \E query \in Queries, page \in StartPages :
          /\ Validate(query, page) = "ok"
          /\ argsValid' = Acceptable(query, page)
    /\ firstRequests' = firstRequests + 1
    /\ \E cur \in 1 .. MaxCurrentPage, k \in 0 .. MaxItems :
          /\ StrayRecords + k <= MaxStray
          /\ RESULTS' = AppendAll(RESULTS, Records(MainName, cur, k))
    /\ firstFetch' = "partial"
    /\ mainPc' = "poll"
    /\ UNCHANGED << PROXIES, THREADS, mainCounter, exported >>
    /\ UNCHANGED << searchVars, threadVars >>
    /\ UNCHANGED << initial, requested, reqAfterKill, okItems, faults, waitRounds >>

\* the first request succeeds: append its records, compute the split
SearchFetchOk ==
    /\ mainPc = "search"
    /\ \E query \in Queries, page \in StartPages :
          /\ Validate(query, page) = "ok"
          /\ argsValid' = Acceptable(query, page)
    /\ firstRequests' = firstRequests + 1
    /\ \E cur \in 1 .. MaxCurrentPage, last \in Pages, n \in 1 .. MaxItems :
          /\ RESULTS' = AppendAll(RESULTS, Records(MainName, cur, n))
          /\ okItems' = okItems + n
          /\ current_page' = cur
          /\ last_page' = last
          /\ queries_per_thread' = Ceil(last - cur, NUMBER_OF_THREADS)
          /\ thread_current_page' = cur + 1
    /\ firstFetch' = "ok"
    /\ mainPc' = "spawn"
    /\ UNCHANGED << PROXIES, THREADS, mainCounter, exported >>
    /\ UNCHANGED threadVars
    /\ UNCHANGED << initial, requested, reqAfterKill, faults,
                    waitRounds >>

\* one iteration of the spawn loop: thread i = len(THREADS) is created with
\* its range, started, and appended to THREADS
Spawn ==
    /\ mainPc = "spawn"
    /\ Len(THREADS) < NUMBER_OF_THREADS
    /\ LET i == Len(THREADS)
           tlast == ThreadLastPage(thread_current_page, queries_per_thread,
                                   last_page)
       IN  /\ start_page' = [start_page EXCEPT ![i] = thread_current_page]
           /\ end_page' = [end_page EXCEPT ![i] = tlast]
           /\ counter' = [counter EXCEPT ![i] = thread_current_page]
           /\ pc' = [pc EXCEPT ![i] = "start"]
           /\ THREADS' = Append(THREADS, i)
           /\ thread_current_page' = NextThreadCurrentPage(tlast)
    /\ UNCHANGED << PROXIES, RESULTS, mainPc, mainCounter, exported >>
    /\ UNCHANGED << current_page, last_page, queries_per_thread >>
    /\ UNCHANGED << kill_received, proxy_fail_counter, proxy >>
    /\ UNCHANGED << obsVars, waitRounds >>

\* the spawn loop is over; search() prints its estimate and returns
SearchReturn ==
    /\ mainPc = "spawn"
    /\ Len(THREADS) = NUMBER_OF_THREADS
    /\ mainPc' = "poll"
    /\ UNCHANGED << PROXIES, THREADS, RESULTS, mainCounter, exported >>
    /\ UNCHANGED << searchVars, threadVars, obsVars, waitRounds >>

\* ---------------------------------------------------------------- SearchThread.run
\* proxy = PROXIES.pop() at the head of run(); on an empty list the
\* IndexError is not caught and the thread dies holding nothing
Checkout(i) ==
    /\ pc[i] = "start"
    /\ IF PROXIES = << >>
       THEN /\ pc' = [pc EXCEPT ![i] = "crashed"]
            /\ UNCHANGED << PROXIES, proxy >>
       ELSE /\ proxy' = [proxy EXCEPT ![i] = PopValue(PROXIES)]
            /\ PROXIES' = PopRest(PROXIES)
            /\ pc' = [pc EXCEPT ![i] = "head"]
    /\ UNCHANGED << THREADS, RESULTS >>
    /\ UNCHANGED << mainVars, searchVars, obsVars >>
    /\ waitRounds' = RoundsAfterThreadStep
    /\ UNCHANGED << start_page, end_page, kill_received, counter,
                    proxy_fail_counter >>

\* one evaluation of the while condition
LoopHead(i) ==
    /\ pc[i] = "head"
    /\ pc' = [pc EXCEPT ![i] = IF LoopCondition(i) THEN "try" ELSE "release"]
    /\ UNCHANGED << PROXIES, THREADS, RESULTS >>
    /\ UNCHANGED << mainVars, searchVars, obsVars >>
    /\ waitRounds' = RoundsAfterThreadStep
    /\ UNCHANGED << start_page, end_page, kill_received, counter,
                    proxy_fail_counter, proxy >>

\* the head of the try block: at the fail limit pop another proxy (the one
\* held is overwritten, not appended back), then issue the request.  On an
\* empty list the IndexError is caught by `except Exception`: the counter is
\* incremented, no request is issued and the old proxy stays in use.
Request(i) ==
    /\ pc[i] = "try"
    /\ IF proxy_fail_counter[i] = PROXY_FAIL_LIMIT /\ PROXIES = << >>
       THEN /\ proxy_fail_counter' =
                 [proxy_fail_counter EXCEPT ![i] = proxy_fail_counter[i] + 1]
            /\ pc' = [pc EXCEPT ![i] = "head"]
            /\ UNCHANGED << PROXIES, proxy, requested, reqAfterKill >>
       ELSE /\ IF proxy_fail_counter[i] = PROXY_FAIL_LIMIT
               THEN /\ proxy' = [proxy EXCEPT ![i] = PopValue(PROXIES)]
                    /\ PROXIES' = PopRest(PROXIES)
               ELSE UNCHANGED << PROXIES, proxy >>
            /\ requested' = [requested EXCEPT ![i] = requested[i] \cup {counter[i]}]
            /\ reqAfterKill' =
                 [reqAfterKill EXCEPT
                    ![i] = IF kill_received[i] THEN Min(reqAfterKill[i] + 1, 2)
                           ELSE reqAfterKill[i]]
            /\ pc' = [pc EXCEPT ![i] = "request"]
            /\ UNCHANGED proxy_fail_counter
    /\ UNCHANGED << THREADS, RESULTS >>
    /\ UNCHANGED << mainVars, searchVars >>
    /\ UNCHANGED << start_page, end_page, kill_received, counter >>
    /\ UNCHANGED << initial, firstFetch, firstRequests, argsValid, okItems, faults >>
    /\ waitRounds' = RoundsAfterThreadStep

\* the response is a 2xx with n well-formed records: append them, advance
\* the cursor, reset the fail counter, sleep
RespondOk(i) ==
    /\ pc[i] = "request"
    /\ \E n \in 1 .. MaxItems :
          /\ RESULTS' = AppendAll(RESULTS, Records(i, counter[i], n))
          /\ okItems' = okItems + n
    /\ counter' = [counter EXCEPT ![i] = counter[i] + 1]
    /\ proxy_fail_counter' = [proxy_fail_counter EXCEPT ![i] = 0]
    /\ pc' = [pc EXCEPT ![i] = "head"]
    /\ UNCHANGED << PROXIES, THREADS >>
    /\ UNCHANGED << mainVars, searchVars >>
    /\ UNCHANGED << start_page, end_page, kill_received, proxy >>
    /\ UNCHANGED << initial, firstFetch, firstRequests, argsValid, requested, reqAfterKill, faults >>
    /\ waitRounds' = RoundsAfterThreadStep

\* the response has status 429: raise_for_status raises HTTPError before the
\* `status_code is 429` test under it is reached, so QuotaOverloadException
\* is never raised and `except HTTPError` handles the response
RespondQuota(i) ==
    /\ pc[i] = "request"
    /\ faults < MaxFaults
    /\ proxy_fail_counter' =
          [proxy_fail_counter EXCEPT ![i] = proxy_fail_counter[i] + 1]
    /\ faults' = faults + 1
    /\ pc' = [pc EXCEPT ![i] = "head"]
    /\ UNCHANGED << PROXIES, THREADS, RESULTS >>
    /\ UNCHANGED << mainVars, searchVars >>
    /\ UNCHANGED << start_page, end_page, kill_received, counter, proxy >>
    /\ UNCHANGED << initial, firstFetch, firstRequests, argsValid, requested,
                    reqAfterKill, okItems >>
    /\ waitRounds' = RoundsAfterThreadStep

\* the request ends in another fault: requests.get raises, raise_for_status
\* raises HTTPError (another 4xx/5xx status), or the parse loop raises at record k+1 after appending
\* k records.  Every one of these lands in `except HTTPError` or
\* `except Exception`: the fail counter is incremented, the cursor stays.
RespondFault(i) ==
    /\ pc[i] = "request"
    /\ faults < MaxFaults
    /\ \E k \in 0 .. MaxItems :
          /\ StrayRecords + k <= MaxStray
          /\ RESULTS' = AppendAll(RESULTS, Records(i, counter[i], k))
    /\ proxy_fail_counter' =
          [proxy_fail_counter EXCEPT ![i] = proxy_fail_counter[i] + 1]
    /\ faults' = faults + 1
    /\ pc' = [pc EXCEPT ![i] = "head"]
    /\ UNCHANGED << PROXIES, THREADS >>
    /\ UNCHANGED << mainVars, searchVars >>
    /\ UNCHANGED << start_page, end_page, kill_received, counter, proxy >>
    /\ UNCHANGED << initial, firstFetch, firstRequests, argsValid, requested, reqAfterKill, okItems >>
    /\ waitRounds' = RoundsAfterThreadStep

\* (the same, but run() returns without the append)
ReleaseWithoutAppend(i) ==
    /\ pc[i] = "release"
    /\ UNCHANGED PROXIES
    /\ pc' = [pc EXCEPT ![i] = "done"]
    /\ UNCHANGED << THREADS, RESULTS >>
    /\ UNCHANGED << mainVars, searchVars, obsVars >>
    /\ waitRounds' = RoundsAfterThreadStep
    /\ UNCHANGED << start_page, end_page, kill_received, counter,
                    proxy_fail_counter, proxy >>

\* after the loop: PROXIES.append(proxy), and run() returns
Release(i) ==
    /\ pc[i] = "release"
    /\ PROXIES' = Append(PROXIES, proxy[i])
    /\ pc' = [pc EXCEPT ![i] = "done"]
    /\ UNCHANGED << THREADS, RESULTS >>
    /\ UNCHANGED << mainVars, searchVars, obsVars >>
    /\ waitRounds' = RoundsAfterThreadStep
    /\ UNCHANGED << start_page, end_page, kill_received, counter,
                    proxy_fail_counter, proxy >>

\* ---------------------------------------------------------------- main()
\* `while has_live_threads()` with the `counter == 2` test under it: where
\* the main thread goes from the head of its loop
LoopTop ==
    IF ~has_live_threads THEN "export"
    ELSE IF mainCounter = 2 THEN "bye"
    ELSE "join"

\* a join round begun after exactly one handled interrupt is counted, as
\* long as no SearchThread has moved since the interrupt
RoundsAfter ==
    IF LoopTop = "join" /\ mainCounter = 1 /\ waitRounds # Stopped
    THEN Min(waitRounds + 1, MaxRounds) ELSE waitRounds

\* the head of the main loop, reached from search() or from the handler
Poll ==
    /\ mainPc = "poll"
    /\ mainPc' = LoopTop
    /\ waitRounds' = RoundsAfter
    /\ UNCHANGED << PROXIES, THREADS, RESULTS, mainCounter, exported >>
    /\ UNCHANGED << searchVars, threadVars >>
    /\ UNCHANGED << initial, firstFetch, firstRequests, argsValid, requested, reqAfterKill, okItems,
                    faults >>

\* the joins of one round return (each after at most one second, which
\* changes nothing) and the head of the loop is evaluated again
JoinReturns ==
    /\ mainPc = "join"
    /\ mainPc' = LoopTop
    /\ waitRounds' = RoundsAfter
    /\ UNCHANGED << PROXIES, THREADS, RESULTS, mainCounter, exported >>
    /\ UNCHANGED << searchVars, threadVars >>
    /\ UNCHANGED << initial, firstFetch, firstRequests, argsValid, requested, reqAfterKill, okItems,
                    faults >>

\* KeyboardInterrupt inside the try block of the main loop
Interrupt ==
    /\ mainPc = "join"
    /\ kill_received' =
          [i \in Names |-> IF \E k \in 1 .. Len(THREADS) : THREADS[k] = i
                           THEN TRUE ELSE kill_received[i]]
    /\ mainCounter' = mainCounter + 1
    /\ mainPc' = "poll"
    /\ UNCHANGED << PROXIES, THREADS, RESULTS, exported >>
    /\ UNCHANGED searchVars
    /\ UNCHANGED << pc, start_page, end_page, counter, proxy_fail_counter, proxy >>
    /\ UNCHANGED << initial, firstFetch, firstRequests, argsValid, requested, reqAfterKill, okItems,
                    faults, waitRounds >>

\* KeyboardInterrupt anywhere else in the main thread (in search(), at the
\* head of the main loop between two rounds, in export()): nothing catches
\* it (search() catches Exception only), the main thread ends without export
InterruptUncaught ==
    /\ mainPc \in {"search", "spawn", "poll", "join", "export"}
    /\ mainPc' = "aborted"
    /\ UNCHANGED << PROXIES, THREADS, RESULTS, mainCounter, exported >>
    /\ UNCHANGED << searchVars, threadVars >>
    /\ UNCHANGED << initial, firstFetch, firstRequests, argsValid, requested, reqAfterKill, okItems,
                    faults, waitRounds >>

\* export(): serialise RESULTS as it is now
Export ==
    /\ mainPc = "export"
    /\ exported' = [written |-> TRUE, results |-> RESULTS]
    /\ mainPc' = "exported"
    /\ UNCHANGED << PROXIES, THREADS, RESULTS, mainCounter >>
    /\ UNCHANGED << searchVars, threadVars, obsVars, waitRounds >>

\* ---------------------------------------------------------------- Next
Next ==
    \/ SearchRejected
    \/ SearchFetchFails
    \/ SearchFetchPartial
    \/ SearchFetchOk
    \/ Spawn
    \/ SearchReturn
    \/ \E i \in Names : Checkout(i)
    \/ \E i \in Names : LoopHead(i)
    \/ \E i \in Names : Request(i)
    \/ \E i \in Names : RespondOk(i)
    \/ \E i \in Names : RespondQuota(i)
    \/ \E i \in Names : RespondFault(i)
    \/ \E i \in Names : Release(i)
    \/ Poll
    \/ JoinReturns
    \/ Interrupt
    \/ InterruptUncaught
    \/ Export

Spec == Init /\ [][Next]_vars

TypeOK ==
    /\ mainPc \in {"search", "spawn", "poll", "join", "export", "exported",
                   "bye", "aborted"}
    /\ mainCounter \in 0 .. 2
    /\ \A i \in Names :
          /\ pc[i] \in {"unborn", "start", "head", "try", "request",
                        "release", "done", "crashed"}
          /\ proxy_fail_counter[i] \in 0 .. (MaxFaults + 1)
          /\ reqAfterKill[i] \in 0 .. 2

\* ---------------------------------------------------------------- properties
RequestedPages == UNION { requested[i] : i \in Names }
Spawned == { THREADS[k] : k \in 1 .. Len(THREADS) }
InPool == { PROXIES[k] : k \in 1 .. Len(PROXIES) }
Holders == { i \in Names : Holds(i) }

\* C1: after a successful first fetch with current_page <= last_page, in a
\* run with no fault, no interrupt and at least NUMBER_OF_THREADS proxies,
\* the pages the threads have requested when the run completes are exactly
\* current_page + 1 .. last_page.
C1_AllRemainingPagesRequested ==
    ( /\ mainPc = "exported"
      /\ firstFetch = "ok"
      /\ current_page <= last_page
      /\ faults = 0
      /\ mainCounter = 0
      /\ Cardinality(initial) >= NUMBER_OF_THREADS )
    => RequestedPages = (current_page + 1) .. last_page

\* C2: no page is requested by two different threads, and no thread
\* requests the dispatcher's page or a page beyond last_page.
C2_RequestedPagesDisjoint ==
    /\ \A i, j \in Names : i # j => requested[i] \cap requested[j] = {}
    /\ \A i \in Names : \A p \in requested[i] :
          p > current_page /\ p <= last_page

\* two threads have each requested a page, and a request has faulted
C2_Witness ==
    /\ \E i, j \in Names : i # j /\ requested[i] # {} /\ requested[j] # {}
    /\ faults > 0

\* C3: the proxies held by threads plus the proxies in PROXIES number as
\* many as were configured.
C3_ProxiesConserved ==
    Cardinality(Holders) + Len(PROXIES) = Cardinality(initial)

\* C4: no proxy is held by two threads at once, and no proxy is both held
\* by a thread and in PROXIES.
C4_ProxyExclusive ==
    /\ \A i, j \in Holders : i # j => proxy[i] # proxy[j]
    /\ \A i \in Holders : proxy[i] \notin InPool

\* two threads hold proxies at once, one of them requesting through the
\* proxy it popped at the fail limit
C4_Witness ==
    \E i, j \in Holders :
        /\ i # j
        /\ pc[i] = "request"
        /\ proxy_fail_counter[i] = PROXY_FAIL_LIMIT

\* C5: a thread that starts an iteration with its fail counter at
\* PROXY_FAIL_LIMIT pops exactly one proxy from PROXIES and issues its
\* request through it, whatever PROXIES holds.
C5_RotatesAtLimit ==
    [][ \A i \in Names :
          ( /\ pc[i] = "try"
            /\ proxy_fail_counter[i] = PROXY_FAIL_LIMIT
            /\ pc'[i] # "try" )
          => ( /\ pc'[i] = "request"
               /\ Len(PROXIES') = Len(PROXIES) - 1
               /\ proxy'[i] = PopValue(PROXIES) ) ]_vars

\* C6: a thread issues at most one request with its kill_received set, and
\* having issued it never enters the try block again.
C6_AtMostOneRequestAfterKill ==
    \A i \in Names :
        /\ reqAfterKill[i] <= 1
        /\ reqAfterKill[i] = 1 => pc[i] \in {"request", "head", "release", "done"}

\* a thread issued one request after its flag was set and has ended with
\* pages of its range left
C6_Witness ==
    \E i \in Names :
        /\ reqAfterKill[i] = 1
        /\ pc[i] = "done"
        /\ counter[i] < end_page[i]

\* C7: when the first response has last_page = current_page no thread is
\* spawned, PROXIES keeps every proxy and the export is the first page's
\* records; a thread is spawned only for a non-empty range.
C7_NoThreadForEmptyRange ==
    /\ (firstFetch = "ok" /\ last_page = current_page) =>
          /\ THREADS = << >>
          /\ Len(PROXIES) = Cardinality(initial)
          /\ mainPc = "exported" => Len(exported.results) = okItems
    /\ \A i \in Spawned : start_page[i] <= end_page[i]

\* C8: after a run that completes with no interrupt, RESULTS holds as many
\* records as the first fetch and the successful fetches of the threads
\* carried: nothing else contributes a record.
C8_ResultsCountSuccesses ==
    (mainPc = "exported" /\ firstFetch = "ok" /\ mainCounter = 0)
    => Len(RESULTS) = okItems

\* C9: a run that main() has ended, by returning or through bye(), has
\* exported, and the export is RESULTS as it then was.
C9_EndedRunExported ==
    /\ mainPc \in {"exported", "bye"} => exported.written
    /\ exported.written => exported.results = RESULTS

\* C10: after one handled interrupt the main loop begins at most 2 join
\* rounds, even while no thread moves.
C10_AtMostTwoRounds ==
    waitRounds <= 2

\* PROXIES as it was configured: nothing popped, nothing appended
PoolUntouched == PROXIES = [k \in 1 .. Cardinality(initial) |-> k]
NoThread == THREADS = << >> /\ \A i \in Names : pc[i] = "unborn"

\* C11: when the first request is answered with status 429, search() does
\* not issue it again, no thread is spawned, no proxy is popped, RESULTS
\* stays empty, and an export holds no record.
C11_QuotaOnFirstFetchAborts ==
    firstFetch = "HTTPError429" =>
        /\ firstRequests = 1
        /\ mainPc # "search"
        /\ NoThread
        /\ PoolUntouched
        /\ RESULTS = << >>
        /\ exported.results = << >>

\* the first request got a 429 and the run has exported
C11_Witness ==
    firstFetch = "HTTPError429" /\ mainPc = "exported" /\ exported.written

\* C12: search() given no query, an empty query, no page or a page below 1
\* issues no request and leaves RESULTS, PROXIES and THREADS as they were.
C12_InvalidArgumentsNoRequest ==
    ~argsValid =>
        /\ firstRequests = 0
        /\ RESULTS = << >>
        /\ PoolUntouched
        /\ NoThread

\* search() was called with a query but a bad page, and has returned
C12_Witness ==
    /\ ~argsValid
    /\ firstFetch = "InvalidPageException"
    /\ mainPc \in {"join", "export", "exported"}

\* C13: a thread whose request is answered with status 429 keeps its fail
\* counter and its page cursor as they were, so 429 responses alone never
\* bring the counter to PROXY_FAIL_LIMIT.
C13_QuotaLeavesCounter ==
    [][ \A i \in Names :
          RespondQuota(i)
          => ( /\ proxy_fail_counter'[i] = proxy_fail_counter[i]
               /\ counter'[i] = counter[i] ) ]_vars

\* the thread is at a PROXIES.pop() (line 150, or line 163 with the fail
\* counter at the limit) and PROXIES is empty
PopsFromEmpty(i) ==
    /\ PROXIES = << >>
    /\ \/ pc[i] = "start"
       \/ pc[i] = "try" /\ proxy_fail_counter[i] = PROXY_FAIL_LIMIT

\* C14: a thread that pops from an empty PROXIES, at the head of run() or
\* at a rotation, halts there: it gets no proxy, PROXIES stays as it was
\* and the thread issues no further request.
C14_HaltsOnEmptyPool ==
    [][ \A i \in Names :
          ( PopsFromEmpty(i) /\ pc'[i] # pc[i] )
          => ( /\ pc'[i] \in {"crashed", "release", "done"}
               /\ proxy'[i] = proxy[i]
               /\ PROXIES' = PROXIES ) ]_vars

\* C15: a thread whose while condition fails, by the end of its range or by
\* kill_received, goes on to append the proxy it holds to PROXIES, and only
\* by that append does it finish; a finished thread holds nothing.
C15_ReleasesOnExit ==
    [][ \A i \in Names :
          /\ ( pc[i] = "head" /\ pc'[i] # "head" /\ ~LoopCondition(i) )
             => pc'[i] = "release"
          /\ ( pc[i] # "done" /\ pc'[i] = "done" )
             => ( /\ pc[i] = "release"
                  /\ PROXIES' = Append(PROXIES, proxy[i])
                  /\ i \notin Holders' ) ]_vars

\* a cancelled thread with pages left and a thread that ran to the end of
\* its range have both finished, and their proxies are in PROXIES
C15_Witness ==
    \E i, j \in Names :
        /\ pc[i] = "done" /\ pc[j] = "done"
        /\ kill_received[i] /\ counter[i] < end_page[i]
        /\ requested[j] # {} /\ counter[j] >= end_page[j]
        /\ {proxy[i], proxy[j]} \subseteq InPool

\* an iteration of the while loop that ended in an except clause
Faulted(i) ==
    \/ RespondFault(i)
    \/ RespondQuota(i)
    \/ Request(i) /\ pc'[i] = "head"

\* C16: an iteration that ends in a fault leaves the thread's page cursor
\* and RESULTS unchanged.
C16_FaultLeavesCursorAndResults ==
    [][ \A i \in Names :
          Faulted(i) => ( counter'[i] = counter[i] /\ RESULTS' = RESULTS ) ]_vars

\* C17: a thread's fail counter counts the faulted requests since its last
\* success: a success sets it to 0 and moves the cursor on by one page, a
\* faulted request adds 1, and no other step of the thread, a rotation
\* among them, changes it.
C17_CounterCountsFaults ==
    [][ \A i \in Names :
          /\ RespondOk(i)
             => ( /\ proxy_fail_counter'[i] = 0
                  /\ counter'[i] = counter[i] + 1 )
          /\ RespondFault(i)
             => proxy_fail_counter'[i] = proxy_fail_counter[i] + 1
          /\ pc[i] # "request"
             => proxy_fail_counter'[i] = proxy_fail_counter[i] ]_vars

\* list.append never touches what the list already holds
IsPrefix(s, t) == Len(s) <= Len(t) /\ SubSeq(t, 1, Len(s)) = s

\* C18: across every step RESULTS as it was is a prefix of RESULTS as it
\* becomes.
C18_ResultsAppendOnly ==
    [][ IsPrefix(RESULTS, RESULTS') ]_vars

\* RESULTS holds records of the first fetch, of successful thread fetches
\* and of a faulted one, and an interrupt has been handled
C18_Witness ==
    /\ Len(RESULTS) >= 3
    /\ StrayRecords > 0
    /\ mainCounter > 0
    /\ mainPc = "exported"

\* the pages of the batches of records thread i has appended, in the order
\* of RESULTS (every batch starts with its record of idx 1)
PagesAppended(i) ==
    LET mine == SelectSeq(RESULTS, LAMBDA r : r.by = i /\ r.idx = 1)
    IN  [k \in 1 .. Len(mine) |-> mine[k].page]

\* C19: the pages a thread has appended to RESULTS are start_page,
\* start_page + 1, ... up to the page before its cursor, once each and in
\* that order.
C19_AppendedPagesUpToCursor ==
    \A i \in Spawned :
        PagesAppended(i) =
            [k \in 1 .. counter[i] - start_page[i] |-> start_page[i] + k - 1]

\* the scheduler runs every started thread, and the main thread, again and
\* again; a KeyboardInterrupt comes from outside and need never come.  Every
\* request succeeds after at most MaxFaults faults.
ThreadStep(i) ==
    \/ Checkout(i) \/ LoopHead(i) \/ Request(i)
    \/ RespondOk(i) \/ RespondQuota(i) \/ RespondFault(i) \/ Release(i)
MainStep ==
    \/ SearchRejected \/ SearchFetchFails \/ SearchFetchPartial \/ SearchFetchOk
    \/ Spawn \/ SearchReturn \/ Poll \/ JoinReturns \/ Export
FairSpec ==
    Spec /\ WF_vars(MainStep) /\ \A i \in Names : WF_vars(ThreadStep(i))

\* a KeyboardInterrupt has reached main()
Interrupted == mainCounter > 0 \/ mainPc \in {"aborted", "bye"}

\* under FairSpec a run that is never interrupted reaches the export
C20_Terminates ==
    <>( Interrupted \/ mainPc = "exported" )

\* C20: under fair scheduling a run that started with at least
\* NUMBER_OF_THREADS proxies and is never interrupted reaches the export
\* with no spawned thread alive and every configured proxy in PROXIES.
C20_TerminatesWithPoolRestored ==
    Cardinality(initial) >= NUMBER_OF_THREADS
    => <>( \/ Interrupted
           \/ /\ mainPc = "exported"
              /\ exported.written
              /\ \A i \in Spawned : ~IsAlive(i)
              /\ InPool = initial )

====
